---- MODULE Spec2Model ----
(***************************************************************************)
(* helo: the connection / transaction manager of helo.db.                  *)
(*                                                                         *)
(* Database (src/helo/db/core.py) hands every task the Connection stored   *)
(* in its context variable; Connection (src/helo/db/backend/mysql.py)      *)
(* keeps a reentrancy counter, the physical handle leased from the pool    *)
(* and three asyncio locks; Transaction brackets a body with begin and     *)
(* commit / rollback.  Tasks are asyncio tasks: a task runs until it       *)
(* awaits a lock that is taken or an answer of the pool or of the handle.  *)
(*                                                                         *)
(* The query builders (src/helo/model/core.py): Select, Insert, Replace,   *)
(* Update, Delete, Show, Create and Drop keep their clauses in slots,      *)
(* render them with __sql__ and hand the statement to Database.execute,    *)
(* which runs it through fetch, execute or executemany of the Connection.  *)
(***************************************************************************)
EXTENDS Integers, Sequences, FiniteSets, TLC

\* ------------------------------------------------------------------ bounds
\* Two tasks: enough for every interleaving of two calls on one Connection.
Tasks == {1, 2}
\* Each task may come to own a Connection of its own.
Conns == Tasks
\* The size of the pool.
NumHandles == 2
\* How many scopes and transactions the tasks have open at a time, nested
\* or side by side.
MaxDepth == 2
\* How many calls the pool and the backend fail.
MaxFaults == 1
\* The reentrancy counter is a Python int: calls that would raise it stop
\* at the highest value runs without failures reach (every open scope and
\* one call in progress per task), plus one per failure.
MaxCounter == MaxDepth + 2 + MaxFaults

Handles == 1..NumHandles

\* The predicates a caller passes to where() and having().
NumPreds == 2
\* The columns of the table a builder is made for.
NumColumns == 2
\* The largest row count, page and offset a caller passes.
MaxRows == 1
\* The fields of the model's table.
NumFields == 3
\* The most parameters of one expression assigned by an update.
MaxExprParams == 2
\* Select._BATCH, the rows an iteration fetches at a time: 200 in the source,
\* scaled down; and result sizes up to two full batches and a row.
BATCH == 2
MaxTable == 2 * BATCH + 1
\* Select._SINGLE
SINGLE == 1

Preds == 1..NumPreds
Columns == 1..NumColumns

\* None of Python, for a Connection's _current, a lock's holder and a
\* context variable that was never set.
None == 0

NoExc == "none"

VARIABLES
    is_connected,   \* Database._is_connected
    pool,           \* Backend._pool: "none", or the pool ("open")
    free,           \* the pool's handles that are not leased
    in_tx,          \* per handle: a transaction is open on the session
    connctx,        \* Database._connctx, per task: a Connection or None
    current,        \* Connection._current, per Connection: a handle or None
    conn_counter,   \* Connection._conn_counter
    conn_lock,      \* Connection._conn_lock: the task holding it, or None
    tran_lock,      \* Connection._tran_lock
    query_lock,     \* Connection._query_lock
    stack,          \* per task: the scopes it is inside, outermost first
    pc,             \* per task: where it is suspended
    call,           \* per task: the call in progress, or the last one's outcome
    faults,         \* failures the pool and the backend have answered with
    builder,        \* the statement builder a caller is composing
    issued,         \* what the builder's last rendering or execution gave
    table_rows,     \* the rows the Select's statement matches without LIMIT
    yielded         \* the rows an async for over the Select was handed

vars == <<is_connected, pool, free, in_tx, connctx, current, conn_counter,
          conn_lock, tran_lock, query_lock, stack, pc, call, faults,
          builder, issued, table_rows, yielded>>

\* The state of the connection manager, and the state of the builders.
connVars == <<pool, free, in_tx, connctx, current, conn_counter,
              conn_lock, tran_lock, query_lock, stack, pc, call, faults>>
iterVars == <<table_rows, yielded>>
queryVars == <<builder, issued, table_rows, yielded>>

dbVars == <<is_connected, pool>>
lockVars == <<conn_lock, tran_lock, query_lock>>

\* ----------------------------------------------------------------- records
\* A call in progress: the operation, its Connection, the statement kind,
\* the handle it uses (h), the exception the body handed to a scope exit
\* (excIn), the commands it has sent to the handle (sent).  Once it has
\* returned: the operation and the exception that reached the caller (err).
NoCall ==
    [op |-> "none", conn |-> None, q |-> "none", h |-> None,
     excIn |-> NoExc, sent |-> 0, err |-> NoExc]

NewCall(o, c) == [NoCall EXCEPT !.op = o, !.conn = c]

Done(cl, e) == [NoCall EXCEPT !.op = cl.op, !.conn = cl.conn, !.err = e]

\* None of Python in a slot that holds an int (a limit, an offset).
Unset == 0 - 1

\* _sql.SQL("*"), the column list of a select without columns, and
\* func.F.COUNT(_sql.SQL("1")), the column count() selects.
Star == 0
CountOne == NumColumns + 1

\* No builder has been made yet.  A builder: its class (kind), the slots of
\* Select, Update and Delete (a tuple that is None or empty is <<>>), the
\* force flag of Delete, _props.many, _props.rows (Unset while the key is
\* absent), the key of Show, the columns and value rows of a ValuesMatch,
\* and the rows and the index an iteration over a Select has got.
NoBuilder ==
    [kind |-> "none", columns |-> <<>>, where |-> None, group_by |-> <<>>,
     having |-> None, order_by |-> <<>>, limit |-> Unset, offset |-> Unset,
     force |-> FALSE, many |-> FALSE, rows |-> Unset, key |-> "none",
     values |-> <<>>, gotlist |-> <<>>, gotidx |-> 0]

\* The outcome of the last call on the builder, if it rendered, executed or
\* raised: the call (op), the exception it raised (err), the fragments
\* handed to the render context, in order (sql), and the primitive of the
\* Connection the statement was run through (path); params are the entries
\* of the parameter list of the statement, in order: the clause an entry
\* comes from, the values it holds, and whether it is one value (the only
\* one of vals) or a sequence of values; rows is the rows argument handed
\* to Connection.fetch (Unset when none was).
NoIssue ==
    [op |-> "none", sql |-> <<>>, params |-> <<>>, path |-> "none",
     rows |-> Unset, err |-> NoExc]

Top(t) == stack[t][Len(stack[t])]

\* The scopes and transactions open in all tasks.
RECURSIVE OpenScopes(_)
OpenScopes(ts) ==
    IF ts = {} THEN 0
    ELSE LET t == CHOOSE u \in ts : TRUE
         IN  Len(stack[t]) + OpenScopes(ts \ {t})

Pop(s) == SubSeq(s, 1, Len(s) - 1)

\* ---------------------------------------------------------------- Database
\* Backend.connection(): a new Connection; the one of task t is named t.
NewConnection(t) == t

\* Database.connection(): None while unconnected; else the Connection of the
\* task's context, a new one (stored in the context) when there is none.

\* A connection() that makes a Connection of its own at every call.
DbConnectionFresh(t) == IF ~is_connected THEN None ELSE 3 - t

DbConnection(t) ==
    IF ~is_connected THEN None
    ELSE IF connctx[t] # None THEN connctx[t]
    ELSE NewConnection(t)

\* What connection() leaves in the context variable.
ContextAfter(t) ==
    IF is_connected /\ connctx[t] = None
    THEN [connctx EXCEPT ![t] = NewConnection(t)]
    ELSE connctx

\* A database as constructed: unconnected, no pool, no Connection yet.
Init ==
    /\ is_connected = FALSE
    /\ pool = "none"
    /\ free = Handles
    /\ in_tx = [h \in Handles |-> FALSE]
    /\ connctx = [t \in Tasks |-> None]
    /\ current = [c \in Conns |-> None]
    /\ conn_counter = [c \in Conns |-> 0]
    /\ conn_lock = [c \in Conns |-> None]
    /\ tran_lock = [c \in Conns |-> None]
    /\ query_lock = [c \in Conns |-> None]
    /\ stack = [t \in Tasks |-> <<>>]
    /\ pc = [t \in Tasks |-> "idle"]
    /\ call = [t \in Tasks |-> NoCall]
    /\ faults = 0
    /\ builder = NoBuilder
    /\ issued = NoIssue
    /\ table_rows = 0
    /\ yielded = <<>>

\* ------------------------------------------------------ a step of a task
\* A task runs without suspending until it awaits a lock that is taken, the
\* pool or the handle.  A step is computed on a record x of what the task
\* may change up to there: its pc, call and stack, and the counter and the
\* three locks of its Connection.
Here(t, c) ==
    [t |-> t, pc |-> pc[t], call |-> call[t], stack |-> stack[t],
     cnt |-> conn_counter[c], clk |-> conn_lock[c], tran |-> tran_lock[c],
     qlk |-> query_lock[c]]

Apply(t, c, x) ==
    /\ pc' = [pc EXCEPT ![t] = x.pc]
    /\ call' = [call EXCEPT ![t] = x.call]
    /\ stack' = [stack EXCEPT ![t] = x.stack]
    /\ conn_counter' = [conn_counter EXCEPT ![c] = x.cnt]
    /\ conn_lock' = [conn_lock EXCEPT ![c] = x.clk]
    /\ tran_lock' = [tran_lock EXCEPT ![c] = x.tran]
    /\ query_lock' = [query_lock EXCEPT ![c] = x.qlk]

\* The call returns to its caller, raising e unless e is NoExc.
Return(x, e) == [x EXCEPT !.pc = "idle", !.call = Done(x.call, e)]

\* A block that keeps the bookkeeping lock when it ends.
UnlockedNever(x) == x

\* The end of an async with self._conn_lock block, if the call is in one.
Unlocked(x) == [x EXCEPT !.clk = IF @ = x.t THEN None ELSE @]

\* ------------------------------------------------- Connection: the scope
\* An entry that acquires whatever the counter is.
NeedsAcquireEach(n) == n >= 1

\* __aenter__ line 109: the entry that raised the counter to 1 acquires.
NeedsAcquire(n) == n = 1

\* Exits that would release too early, at every exit, or never.
NeedsReleaseEarly(n) == n <= 1

NeedsReleaseAlways(n) == n >= 0

NeedsReleaseNever(n) == n < 0

\* __aexit__ line 121: the exit that lowered the counter to 0 releases.
NeedsRelease(n) == n = 0

\* An acquire() without its guard on the pool.
AcquireCheckNoPool(cur) == IF cur # None THEN "AssertionError" ELSE NoExc

\* The guards of acquire() and release() on a Connection whose handle is
\* cur: the error raised, or NoExc.  A pool that is closing is still the
\* backend's pool.
AcquireCheck(cur) ==
    IF cur # None THEN "AssertionError"
    ELSE IF pool = "none" THEN "AssertionError"
    ELSE NoExc

ReleaseCheck(cur) ==
    IF cur = None THEN "AssertionError"
    ELSE IF pool = "none" THEN "AssertionError"
    ELSE NoExc

\* __aexit__ has ended, raising e or not: the scope is left, the exception e
\* or else the one of the body goes on to the caller; commit() / rollback()
\* leave the transaction lock.
ExitEnd(x, e) ==
    Return([Unlocked(x) EXCEPT
                !.stack = IF x.call.op \in {"exit", "commit", "rollback"}
                          THEN Pop(@) ELSE @,
                !.tran = IF x.call.op \in {"commit", "rollback"}
                         THEN None ELSE @],
           IF e # NoExc THEN e ELSE x.call.excIn)

\* release(): its two guards, then the await of pool.release().
Release(x, cur) ==
    IF ReleaseCheck(cur) # NoExc THEN ExitEnd(x, ReleaseCheck(cur))
    ELSE [x EXCEPT !.pc = "pool_release", !.call.h = cur]

\* __aexit__ under the bookkeeping lock.
ExitLocked(x, cur) ==
    LET n == x.cnt - 1
        y == [x EXCEPT !.cnt = n, !.clk = x.t]
    IN  IF NeedsRelease(n) THEN Release(y, cur) ELSE ExitEnd(y, NoExc)

\* async with self._conn_lock, in __aexit__.
DoExit(x, cur) ==
    IF x.clk = None THEN ExitLocked(x, cur)
    ELSE [x EXCEPT !.pc = "conn_wait_out"]

\* ------------------------------------------------ Connection: statements
\* fetch() / execute() has returned or raised e: the caller has the outcome,
\* or Database.execute leaves its async with block.
QueryEnd(x, e, cur) ==
    IF x.call.op = "dbexec"
    THEN DoExit([x EXCEPT !.call.excIn = e], cur)
    ELSE Return(x, e)

\* A statement that does not wait for the execute lock.
QueryLockIgnored(holder) == holder \in Tasks \cup {None}

\* async with self._query_lock: the lock is free.
QueryLockFree(holder) == holder = None

\* Under the execute lock: the cursor is opened on self._current and the
\* statement is sent.
QueryLocked(x, cur) ==
    IF cur = None THEN QueryEnd(x, "AttributeError", cur)
    ELSE [x EXCEPT !.pc = "exec_io", !.qlk = x.t, !.call.h = cur,
                   !.call.sent = @ + 1]

\* fetch() / execute(): the guard on self._current, then the execute lock.
DoQuery(x, cur) ==
    IF cur = None THEN QueryEnd(x, "AssertionError", cur)
    ELSE IF QueryLockFree(x.qlk) THEN QueryLocked(x, cur)
    ELSE [x EXCEPT !.pc = "query_wait"]

\* --------------------------------------------- Connection: __aenter__
\* __aenter__ has returned: the scope is entered; or begin() sends BEGIN to
\* self._current; or Database.execute runs its statement.
EnterEnd(x, cur) ==
    LET y == Unlocked(x)
    IN  CASE x.call.op \in {"enter", "acquire"} ->
                Return([y EXCEPT !.stack = IF x.call.op = "enter"
                                           THEN Append(@, "scope") ELSE @],
                       NoExc)
          [] x.call.op = "begin" ->
                IF cur = None
                THEN Return([y EXCEPT !.tran = None], "AttributeError")
                ELSE [y EXCEPT !.pc = "begin_io", !.call.h = cur,
                               !.call.sent = @ + 1]
          [] OTHER -> DoQuery(y, cur)

\* __aenter__ or acquire() raised e: no scope is entered; begin() leaves
\* its lock.
EnterFail(x, e) ==
    Return([Unlocked(x) EXCEPT
                !.tran = IF x.call.op = "begin" THEN None ELSE @], e)

\* acquire(): its two guards, then the await of pool.acquire().
Acquire(x, cur) ==
    IF AcquireCheck(cur) # NoExc THEN EnterFail(x, AcquireCheck(cur))
    ELSE [x EXCEPT !.pc = "pool_acquire"]

\* __aenter__ under the bookkeeping lock.
EnterLocked(x, cur) ==
    LET n == x.cnt + 1
        y == [x EXCEPT !.cnt = n, !.clk = x.t]
    IN  IF NeedsAcquire(n) THEN Acquire(y, cur) ELSE EnterEnd(y, cur)

\* async with self._conn_lock, in __aenter__.
DoEnter(x, cur) ==
    IF x.clk = None THEN EnterLocked(x, cur)
    ELSE [x EXCEPT !.pc = "conn_wait_in"]

\* ------------------------------------- Connection: begin, commit, rollback
\* Under the transaction lock: begin() enters the scope; commit() and
\* rollback() send their command to self._current.
TranLocked(x, cur) ==
    IF x.call.op = "begin"
    THEN DoEnter([x EXCEPT !.tran = x.t], cur)
    ELSE IF cur = None
    THEN Return([x EXCEPT !.stack = Pop(@)], "AttributeError")
    ELSE [x EXCEPT !.pc = "end_io", !.tran = x.t, !.call.h = cur,
                   !.call.sent = @ + 1]

\* async with self._tran_lock.
DoTran(x, cur) ==
    IF x.tran = None THEN TranLocked(x, cur)
    ELSE [x EXCEPT !.pc = "tran_wait"]

\* ------------------------------------------------------------ Transaction
\* An exit that commits whatever the body did.
TxExitOpCommit(e) == IF e # NoExc THEN "commit" ELSE "commit"

\* Transaction.__aexit__: rollback when the body raised, else commit.
TxExitOp(e) == IF e # NoExc THEN "rollback" ELSE "commit"

\* The statements a caller runs: conn.fetch(...) and conn.execute(...).
Statements == {"fetch", "execute"}

\* The body of an async with block ends: normally (NoExc), by raising, or by
\* letting the exception of its last call through.
BodyExits(t) == {NoExc, "BodyError", call[t].err}

\* ------------------------------------------------------- the tasks' calls
\* A call that fails before it reaches a Connection.
Refuse(t, o, e) ==
    /\ call' = [call EXCEPT ![t] = Done(NewCall(o, None), e)]
    /\ UNCHANGED <<pc, stack, conn_counter, lockVars>>

\* async with db.connection(): ... - the call of __aenter__.
CallEnter(t) ==
    LET c == DbConnection(t)
    IN  /\ pc[t] = "idle"
        /\ OpenScopes(Tasks) < MaxDepth
        /\ connctx' = ContextAfter(t)
        /\ IF c = None THEN Refuse(t, "enter", "AttributeError")
           ELSE /\ conn_counter[c] < MaxCounter
                /\ Apply(t, c, DoEnter([Here(t, c) EXCEPT
                        !.call = NewCall("enter", c)], current[c]))
        /\ UNCHANGED queryVars
        /\ UNCHANGED <<dbVars, free, in_tx, current, faults>>

\* pool.acquire() answers with a free handle: acquire() stores it.
PoolAcquireReturn(t) ==
    LET c == call[t].conn
    IN  /\ pc[t] = "pool_acquire"
        /\ pool = "open"
        /\ \E h \in free :
            /\ free' = free \ {h}
            /\ current' = [current EXCEPT ![c] = h]
            /\ Apply(t, c, EnterEnd(Here(t, c), h))
        /\ UNCHANGED queryVars
        /\ UNCHANGED <<dbVars, in_tx, connctx, faults>>

\* pool.acquire() raises, or the task is cancelled while it waits.
PoolAcquireFail(t) ==
    LET c == call[t].conn
    IN  /\ pc[t] = "pool_acquire"
        /\ faults < MaxFaults
        /\ faults' = faults + 1
        /\ Apply(t, c, EnterFail(Here(t, c), "PoolError"))
        /\ UNCHANGED queryVars
        /\ UNCHANGED <<dbVars, free, in_tx, connctx, current>>

\* The body of an async with conn block ends: the call of __aexit__.
CallExitScope(t) ==
    LET c == connctx[t]
    IN  /\ pc[t] = "idle"
        /\ stack[t] # <<>>
        /\ Top(t) = "scope"
        /\ \E e \in BodyExits(t) :
            Apply(t, c, DoExit([Here(t, c) EXCEPT
                !.call = [NewCall("exit", c) EXCEPT !.excIn = e]],
                current[c]))
        /\ UNCHANGED queryVars
        /\ UNCHANGED <<dbVars, free, in_tx, connctx, current, faults>>

\* pool.release(self._current) has the handle back in the pool (a session
\* left inside a transaction is replaced by the pool); release() still
\* awaits its answer.
PoolReleaseTakes(t) ==
    /\ pc[t] = "pool_release"
    /\ free' = free \cup {call[t].h}
    /\ in_tx' = [in_tx EXCEPT ![call[t].h] = FALSE]
    /\ pc' = [pc EXCEPT ![t] = "pool_released"]
    /\ UNCHANGED queryVars
    /\ UNCHANGED <<dbVars, connctx, current, conn_counter, lockVars, stack,
                   call, faults>>

\* pool.release() answers: release() clears self._current.
PoolReleaseReturn(t) ==
    LET c == call[t].conn
    IN  /\ pc[t] = "pool_released"
        /\ current' = [current EXCEPT ![c] = None]
        /\ Apply(t, c, ExitEnd(Here(t, c), NoExc))
        /\ UNCHANGED queryVars
        /\ UNCHANGED <<dbVars, free, in_tx, connctx, faults>>

\* async with db.transaction(): ... or a call of a function wrapped by it:
\* Transaction.__aenter__ calls Connection.begin().
CallBegin(t) ==
    LET c == DbConnection(t)
    IN  /\ pc[t] = "idle"
        /\ OpenScopes(Tasks) < MaxDepth
        /\ connctx' = ContextAfter(t)
        /\ IF c = None THEN Refuse(t, "begin", "UnconnectedError")
           ELSE /\ conn_counter[c] < MaxCounter
                /\ Apply(t, c, DoTran([Here(t, c) EXCEPT
                        !.call = NewCall("begin", c)], current[c]))
        /\ UNCHANGED queryVars
        /\ UNCHANGED <<dbVars, free, in_tx, current, faults>>

\* The body of the transaction ends: Transaction.__aexit__ calls
\* Connection.rollback() or Connection.commit().
CallExitTx(t) ==
    LET c == connctx[t]
    IN  /\ pc[t] = "idle"
        /\ stack[t] # <<>>
        /\ Top(t) = "tx"
        /\ \E e \in BodyExits(t) :
            Apply(t, c, DoTran([Here(t, c) EXCEPT
                !.call = [NewCall(TxExitOp(e), c) EXCEPT !.excIn = e]],
                current[c]))
        /\ UNCHANGED queryVars
        /\ UNCHANGED <<dbVars, free, in_tx, connctx, current, faults>>

\* The handle answers BEGIN: the transaction is open, begin() leaves its
\* lock and the body starts.
BeginReturn(t) ==
    LET c == call[t].conn
    IN  /\ pc[t] = "begin_io"
        /\ in_tx' = [in_tx EXCEPT ![call[t].h] = TRUE]
        /\ Apply(t, c, Return([Here(t, c) EXCEPT
                !.stack = Append(@, "tx"), !.tran = None], NoExc))
        /\ UNCHANGED queryVars
        /\ UNCHANGED <<dbVars, free, connctx, current, faults>>

\* The handle fails BEGIN: begin() raises out of its lock.
BeginFail(t) ==
    LET c == call[t].conn
    IN  /\ pc[t] = "begin_io"
        /\ faults < MaxFaults
        /\ faults' = faults + 1
        /\ Apply(t, c, Return([Here(t, c) EXCEPT !.tran = None],
                              "BeginError"))
        /\ UNCHANGED queryVars
        /\ UNCHANGED <<dbVars, free, in_tx, connctx, current>>

\* The handle answers COMMIT / ROLLBACK: __aexit__ follows, under the
\* transaction lock.
EndReturn(t) ==
    LET c == call[t].conn
    IN  /\ pc[t] = "end_io"
        /\ in_tx' = [in_tx EXCEPT ![call[t].h] = FALSE]
        /\ Apply(t, c, DoExit(Here(t, c), current[c]))
        /\ UNCHANGED queryVars
        /\ UNCHANGED <<dbVars, free, connctx, current, faults>>

\* The handle fails COMMIT / ROLLBACK: the call raises out of its lock and
\* out of the transaction.
EndFail(t) ==
    LET c == call[t].conn
    IN  /\ pc[t] = "end_io"
        /\ faults < MaxFaults
        /\ faults' = faults + 1
        /\ Apply(t, c, Return([Here(t, c) EXCEPT
                !.stack = Pop(@), !.tran = None], "EndError"))
        /\ UNCHANGED queryVars
        /\ UNCHANGED <<dbVars, free, in_tx, connctx, current>>

\* await conn.fetch(...) / conn.execute(...) on the task's Connection.
CallQuery(t) ==
    LET c == connctx[t]
    IN  /\ pc[t] = "idle"
        /\ c # None
        /\ \E q \in Statements :
            Apply(t, c, DoQuery([Here(t, c) EXCEPT
                !.call = [NewCall(q, c) EXCEPT !.q = q]], current[c]))
        /\ UNCHANGED queryVars
        /\ UNCHANGED <<dbVars, free, in_tx, connctx, current, faults>>

\* await db.execute(query): the statement in an async with block of the
\* task's Connection; query.r chooses fetch() or execute().
CallDbExecute(t) ==
    LET c == DbConnection(t)
    IN  /\ pc[t] = "idle"
        /\ connctx' = ContextAfter(t)
        /\ IF c = None THEN Refuse(t, "dbexec", "UnconnectedError")
           ELSE /\ conn_counter[c] < MaxCounter
                /\ \E q \in Statements :
                    Apply(t, c, DoEnter([Here(t, c) EXCEPT
                        !.call = [NewCall("dbexec", c) EXCEPT !.q = q]],
                        current[c]))
        /\ UNCHANGED queryVars
        /\ UNCHANGED <<dbVars, free, in_tx, current, faults>>

\* cur.execute() answers: fetch() goes on to read the rows; execute() reads
\* rowcount and lastrowid off the cursor and leaves the lock.
ExecReturn(t) ==
    LET c == call[t].conn
    IN  /\ pc[t] = "exec_io"
        /\ IF call[t].q = "fetch"
           THEN Apply(t, c, [Here(t, c) EXCEPT !.pc = "fetch_io"])
           ELSE Apply(t, c, QueryEnd([Here(t, c) EXCEPT !.qlk = None],
                                     NoExc, current[c]))
        /\ UNCHANGED queryVars
        /\ UNCHANGED <<dbVars, free, in_tx, connctx, current, faults>>

\* cur.fetchall() / fetchone() / fetchmany() answers: fetch() leaves the lock.
FetchReturn(t) ==
    LET c == call[t].conn
    IN  /\ pc[t] = "fetch_io"
        /\ Apply(t, c, QueryEnd([Here(t, c) EXCEPT !.qlk = None],
                                NoExc, current[c]))
        /\ UNCHANGED queryVars
        /\ UNCHANGED <<dbVars, free, in_tx, connctx, current, faults>>

\* The backend fails the statement or the read of its rows.
QueryFail(t) ==
    LET c == call[t].conn
    IN  /\ pc[t] \in {"exec_io", "fetch_io"}
        /\ faults < MaxFaults
        /\ faults' = faults + 1
        /\ Apply(t, c, QueryEnd([Here(t, c) EXCEPT !.qlk = None],
                                "QueryError", current[c]))
        /\ UNCHANGED queryVars
        /\ UNCHANGED <<dbVars, free, in_tx, connctx, current>>

\* await conn.acquire(), called directly.
CallAcquire(t) ==
    LET c == connctx[t]
    IN  /\ pc[t] = "idle"
        /\ c # None
        /\ Apply(t, c, Acquire([Here(t, c) EXCEPT
                !.call = NewCall("acquire", c)], current[c]))
        /\ UNCHANGED queryVars
        /\ UNCHANGED <<dbVars, free, in_tx, connctx, current, faults>>

\* await conn.release(), called directly.
CallRelease(t) ==
    LET c == connctx[t]
    IN  /\ pc[t] = "idle"
        /\ c # None
        /\ Apply(t, c, Release([Here(t, c) EXCEPT
                !.call = NewCall("release", c)], current[c]))
        /\ UNCHANGED queryVars
        /\ UNCHANGED <<dbVars, free, in_tx, connctx, current, faults>>

\* await db.connect(): DuplicateConnect when connected, else the await of
\* aiomysql.create_pool().
DbConnect(t) ==
    /\ pc[t] = "idle"
    /\ IF is_connected
       THEN /\ call' = [call EXCEPT
                    ![t] = Done(NewCall("connect", None), "DuplicateConnect")]
            /\ UNCHANGED pc
       ELSE /\ call' = [call EXCEPT ![t] = NewCall("connect", None)]
            /\ pc' = [pc EXCEPT ![t] = "create_pool"]
    /\ UNCHANGED queryVars
    /\ UNCHANGED <<dbVars, free, in_tx, connctx, current, conn_counter,
                   lockVars, stack, faults>>

\* create_pool() answers: the backend stores the pool and the database is
\* connected.
DbConnectReturn(t) ==
    /\ pc[t] = "create_pool"
    /\ pool' = "open"
    /\ free' = Handles
    /\ in_tx' = [h \in Handles |-> FALSE]
    /\ is_connected' = TRUE
    /\ pc' = [pc EXCEPT ![t] = "idle"]
    /\ call' = [call EXCEPT ![t] = Done(call[t], NoExc)]
    /\ UNCHANGED queryVars
    /\ UNCHANGED <<connctx, current, conn_counter, lockVars, stack, faults>>

\* await db.close(): UnconnectedError when unconnected, else pool.close()
\* and the await of pool.wait_closed().
DbClose(t) ==
    /\ pc[t] = "idle"
    /\ IF ~is_connected \/ pool = "none"
       THEN /\ call' = [call EXCEPT
                    ![t] = Done(NewCall("close", None), "UnconnectedError")]
            /\ UNCHANGED <<pc, pool>>
       ELSE /\ call' = [call EXCEPT ![t] = NewCall("close", None)]
            /\ pc' = [pc EXCEPT ![t] = "wait_closed"]
            /\ pool' = "closing"
    /\ UNCHANGED queryVars
    /\ UNCHANGED <<is_connected, free, in_tx, connctx, current, conn_counter,
                   lockVars, stack, faults>>

\* wait_closed() answers once every handle is back: the backend forgets the
\* pool and the database is unconnected.
DbCloseReturn(t) ==
    /\ pc[t] = "wait_closed"
    /\ free = Handles
    /\ pool' = "none"
    /\ is_connected' = FALSE
    /\ pc' = [pc EXCEPT ![t] = "idle"]
    /\ call' = [call EXCEPT ![t] = Done(call[t], NoExc)]
    /\ UNCHANGED queryVars
    /\ UNCHANGED <<free, in_tx, connctx, current, conn_counter, lockVars,
                   stack, faults>>

\* create_pool() raises: Backend.connect and Database.connect raise with
\* it, before the pool or the flag is stored.
DbConnectFail(t) ==
    /\ pc[t] = "create_pool"
    /\ faults < MaxFaults
    /\ faults' = faults + 1
    /\ pc' = [pc EXCEPT ![t] = "idle"]
    /\ call' = [call EXCEPT ![t] = Done(call[t], "ConnectError")]
    /\ UNCHANGED queryVars
    /\ UNCHANGED <<dbVars, free, in_tx, connctx, current, conn_counter,
                   lockVars, stack>>

\* A close whose failure marks the database unconnected all the same.
DbCloseFailFlips(t) ==
    /\ pc[t] = "wait_closed"
    /\ faults < MaxFaults
    /\ faults' = faults + 1
    /\ is_connected' = FALSE
    /\ pc' = [pc EXCEPT ![t] = "idle"]
    /\ call' = [call EXCEPT ![t] = Done(call[t], "CloseError")]
    /\ UNCHANGED queryVars
    /\ UNCHANGED <<pool, free, in_tx, connctx, current, conn_counter,
                   lockVars, stack>>

\* wait_closed() raises or the task is cancelled in it: Backend.close and
\* Database.close raise with it; the pool, already told to close, is still
\* the backend's, and the flag is as it was.
DbCloseFail(t) ==
    /\ pc[t] = "wait_closed"
    /\ faults < MaxFaults
    /\ faults' = faults + 1
    /\ pc' = [pc EXCEPT ![t] = "idle"]
    /\ call' = [call EXCEPT ![t] = Done(call[t], "CloseError")]
    /\ UNCHANGED queryVars
    /\ UNCHANGED <<dbVars, free, in_tx, connctx, current, conn_counter,
                   lockVars, stack>>

\* A task that waited for a lock finds it free and goes on.
Resume(t) ==
    LET c == call[t].conn
    IN  /\ CASE pc[t] = "conn_wait_in" ->
                    /\ conn_lock[c] = None
                    /\ Apply(t, c, EnterLocked(Here(t, c), current[c]))
             [] pc[t] = "conn_wait_out" ->
                    /\ conn_lock[c] = None
                    /\ Apply(t, c, ExitLocked(Here(t, c), current[c]))
             [] pc[t] = "tran_wait" ->
                    /\ tran_lock[c] = None
                    /\ Apply(t, c, TranLocked(Here(t, c), current[c]))
             [] pc[t] = "query_wait" ->
                    /\ QueryLockFree(query_lock[c])
                    /\ Apply(t, c, QueryLocked(Here(t, c), current[c]))
             [] OTHER -> FALSE
        /\ UNCHANGED queryVars
        /\ UNCHANGED <<dbVars, free, in_tx, connctx, current, faults>>

\* What a task does by itself, and what the pool and the handle answer.
Calls(t) ==
    \/ CallEnter(t)
    \/ CallExitScope(t)
    \/ CallBegin(t)
    \/ CallExitTx(t)
    \/ CallQuery(t)
    \/ CallDbExecute(t)

Answers(t) ==
    \/ PoolAcquireReturn(t)
    \/ PoolReleaseTakes(t)
    \/ PoolReleaseReturn(t)
    \/ BeginReturn(t)
    \/ EndReturn(t)
    \/ ExecReturn(t)
    \/ FetchReturn(t)

Failures(t) ==
    \/ PoolAcquireFail(t)
    \/ BeginFail(t)
    \/ EndFail(t)
    \/ QueryFail(t)

\* One task that connects and works on the Connection of its context, and a
\* pool and a backend that may fail.
Next ==
    \/ DbConnect(1)
    \/ DbConnectReturn(1)
    \/ Calls(1)
    \/ Answers(1)
    \/ Failures(1)

Spec == Init /\ [][Next]_vars

\* A connected database and two tasks that inherited one Connection in
\* their context.
InitShared ==
    /\ is_connected = TRUE
    /\ pool = "open"
    /\ free = Handles
    /\ in_tx = [h \in Handles |-> FALSE]
    /\ connctx = [t \in Tasks |-> 1]
    /\ current = [c \in Conns |-> None]
    /\ conn_counter = [c \in Conns |-> 0]
    /\ conn_lock = [c \in Conns |-> None]
    /\ tran_lock = [c \in Conns |-> None]
    /\ query_lock = [c \in Conns |-> None]
    /\ stack = [t \in Tasks |-> <<>>]
    /\ pc = [t \in Tasks |-> "idle"]
    /\ call = [t \in Tasks |-> NoCall]
    /\ faults = 0
    /\ builder = NoBuilder
    /\ issued = NoIssue
    /\ table_rows = 0
    /\ yielded = <<>>

NextShared ==
    \E t \in Tasks : Calls(t) \/ Answers(t) \/ Resume(t) \/ QueryFail(t)

SpecShared == InitShared /\ [][NextShared]_vars

\* The same two tasks under the scheduling of the event loop: the pool and
\* the handle answer every await (weak fairness), and asyncio.Lock wakes
\* its waiters in the order they came, so a task that waits for a lock that
\* is released again and again gets it (strong fairness).
FairShared ==
    \A t \in Tasks : WF_vars(Answers(t)) /\ SF_vars(Resume(t))

SpecSharedFair == SpecShared /\ FairShared

\* A connected database and two tasks that either inherited one Connection
\* in their context or have none yet and get one each.
InitTasks ==
    /\ is_connected = TRUE
    /\ pool = "open"
    /\ free = Handles
    /\ in_tx = [h \in Handles |-> FALSE]
    /\ connctx \in {[t \in Tasks |-> 1], [t \in Tasks |-> None]}
    /\ current = [c \in Conns |-> None]
    /\ conn_counter = [c \in Conns |-> 0]
    /\ conn_lock = [c \in Conns |-> None]
    /\ tran_lock = [c \in Conns |-> None]
    /\ query_lock = [c \in Conns |-> None]
    /\ stack = [t \in Tasks |-> <<>>]
    /\ pc = [t \in Tasks |-> "idle"]
    /\ call = [t \in Tasks |-> NoCall]
    /\ faults = 0
    /\ builder = NoBuilder
    /\ issued = NoIssue
    /\ table_rows = 0
    /\ yielded = <<>>

SpecTasks == InitTasks /\ [][NextShared]_vars

\* One task that connects, closes and calls the Connection of its context
\* directly.
NextApi ==
    \/ DbConnect(1)
    \/ DbConnectReturn(1)
    \/ DbClose(1)
    \/ DbCloseReturn(1)
    \/ CallEnter(1)
    \/ CallExitScope(1)
    \/ CallAcquire(1)
    \/ CallRelease(1)
    \/ CallQuery(1)
    \/ PoolAcquireReturn(1)
    \/ PoolReleaseTakes(1)
    \/ PoolReleaseReturn(1)
    \/ ExecReturn(1)
    \/ FetchReturn(1)

SpecApi == Init /\ [][NextApi]_vars

\* await conn.__aexit__(), called without an entry of its own (as commit()
\* and rollback() call it, whether or not a begin() came before).
CallAexit(t) ==
    LET c == connctx[t]
    IN  /\ pc[t] = "idle"
        /\ c # None
        /\ conn_counter[c] > 0 - MaxCounter
        /\ Apply(t, c, DoExit([Here(t, c) EXCEPT
                !.call = NewCall("aexit", c)], current[c]))
        /\ UNCHANGED queryVars
        /\ UNCHANGED <<dbVars, free, in_tx, connctx, current, faults>>

\* One task on a connected database that enters and leaves scopes and
\* transactions of its Connection and also calls __aexit__ by itself.
NextExits ==
    \/ CallEnter(1)
    \/ CallExitScope(1)
    \/ CallAexit(1)
    \/ CallBegin(1)
    \/ CallExitTx(1)
    \/ PoolAcquireReturn(1)
    \/ PoolReleaseTakes(1)
    \/ PoolReleaseReturn(1)
    \/ BeginReturn(1)
    \/ EndReturn(1)

SpecExits == InitShared /\ [][NextExits]_vars

\* One task that connects and closes a database whose pool may fail, and
\* runs statements and transactions through it, connected or not.
NextDb ==
    \/ DbConnect(1)
    \/ DbConnectReturn(1)
    \/ DbConnectFail(1)
    \/ DbClose(1)
    \/ DbCloseReturn(1)
    \/ DbCloseFail(1)
    \/ CallDbExecute(1)
    \/ CallBegin(1)
    \/ CallExitTx(1)
    \/ Answers(1)

SpecDb == Init /\ [][NextDb]_vars

\* ---------------------------------------------------- the query builders

\* One fragment handed to the render context: the literal text, and the
\* predicate, column or number written with it (Unset: none).
Fragment(text, arg) == [lit |-> text, arg |-> arg]

\* _sql.CommaClauseElements over a list of columns.
CommaClauseElements(cs) == [i \in 1..Len(cs) |-> Fragment("column", cs[i])]

\* The column lists a caller passes: the first column, the first two, ...
ColumnLists == {[i \in 1..n |-> i] : n \in Columns}

\* util.and_(*filters) or None, for the filters of one where() / having().
Filters == Preds \cup {None}

Rendered(fragments, params) ==
    [sql |-> fragments, params |-> params, err |-> NoExc]
RenderRaises(exc) == [sql |-> <<>>, params |-> <<>>, err |-> exc]

\* One entry of the parameter list: one value, or a sequence of values.
Value(clause, v) == [clause |-> clause, nested |-> FALSE, vals |-> <<v>>]
Values(clause, vs) == [clause |-> clause, nested |-> TRUE, vals |-> vs]

\* The parameters of a predicate: a predicate compares a column with one
\* value, written as the predicate itself.
PredicateParams(clause, p) == IF p # None THEN <<Value(clause, p)>> ELSE <<>>

\* A value of the dict of an update: a plain value, a Field, or an expression
\* with n parameters, written n.
PlainValue == 0 - 1
FieldValue == 0 - 2
ValueKinds == {PlainValue, FieldValue} \cup (0..MaxExprParams)

\* The dicts a caller passes to update(): a value for some of the columns.
DataDicts == UNION {[cs -> ValueKinds] : cs \in SUBSET Columns}

\* The items of the dict, in the order of the columns.
RECURSIVE Items(_, _)
Items(data, c) ==
    IF c > NumColumns THEN <<>>
    ELSE (IF c \in DOMAIN data THEN <<<<c, data[c]>>>> ELSE <<>>) \o
         Items(data, c + 1)

\* The j-th parameter under column c of an assignment list.
ParamOf(c, j) == c * (MaxExprParams + 2) + j

\* The parameters of the expression assigned to column c: query.params.
ExprParams(c, n) == [j \in 1..n |-> ParamOf(c, j)]

\* AssignmentList.__sql__: the text of one item, "`col` = " and then the
\* name of a field, the text of an expression with its placeholders, or
\* one placeholder.
RECURSIVE AssignmentText(_)
AssignmentText(items) ==
    IF items = <<>> THEN <<>>
    ELSE LET c == Head(items)[1]
             v == Head(items)[2]
         IN  <<Fragment("assign", c)>> \o
             (IF v = FieldValue THEN <<>>
              ELSE IF v = PlainValue THEN <<Fragment("%s", ParamOf(c, 1))>>
              ELSE [j \in 1..v |-> Fragment("%s", ParamOf(c, j))]) \o
             AssignmentText(Tail(items))

\* What AssignmentList.__sql__ appends to params for an expression:
\* query.params, the sequence, as one entry.
ExprEntry(c, n) == <<Values("SET", ExprParams(c, n))>>

\* AssignmentList.__sql__: the params handed to ctx.values.
RECURSIVE AssignmentParams(_)
AssignmentParams(items) ==
    IF items = <<>> THEN <<>>
    ELSE LET c == Head(items)[1]
             v == Head(items)[2]
         IN  (IF v = FieldValue THEN <<>>
              ELSE IF v = PlainValue THEN <<Value("SET", ParamOf(c, 1))>>
              ELSE ExprEntry(c, v)) \o
             AssignmentParams(Tail(items))

\* Select.__sql__
SelectSql(b) ==
    Rendered(
        <<Fragment("SELECT", Unset)>> \o CommaClauseElements(b.columns) \o
        <<Fragment("FROM", Unset)>> \o
        (IF b.where # None THEN <<Fragment("WHERE", b.where)>> ELSE <<>>) \o
        (IF b.group_by # <<>>
            THEN <<Fragment("GROUP BY", Unset)>> \o CommaClauseElements(b.group_by)
            ELSE <<>>) \o
        (IF b.having # None THEN <<Fragment("HAVING", b.having)>> ELSE <<>>) \o
        (IF b.order_by # <<>>
            THEN <<Fragment("ORDER BY", Unset)>> \o CommaClauseElements(b.order_by)
            ELSE <<>>) \o
        (IF b.limit # Unset THEN <<Fragment("LIMIT", b.limit)>> ELSE <<>>) \o
        (IF b.offset # Unset THEN <<Fragment("OFFSET", b.offset)>> ELSE <<>>),
        PredicateParams("WHERE", b.where) \o PredicateParams("HAVING", b.having))

\* Update.__sql__
UpdateSql(b) ==
    Rendered(
        <<Fragment("UPDATE", Unset), Fragment("SET", Unset)>> \o
        AssignmentText(b.values) \o
        (IF b.where # None THEN <<Fragment("WHERE", b.where)>> ELSE <<>>),
        AssignmentParams(b.values) \o PredicateParams("WHERE", b.where))

\* Delete.__sql__ refusing nothing.
DeleteRefusedNever(b) == FALSE

\* Delete.__sql__ refuses a delete of every row unless it was forced.
DeleteRefused(b) == b.where = None /\ ~b.force

\* Delete.__sql__
DeleteSql(b) ==
    IF DeleteRefused(b)
    THEN RenderRaises("DangerousOperation")
    ELSE Rendered(
            <<Fragment("DELETE FROM", Unset)>> \o
            (IF b.where # None THEN <<Fragment("WHERE", b.where)>> ELSE <<>>) \o
            (IF b.limit # Unset THEN <<Fragment("LIMIT", b.limit)>> ELSE <<>>),
            PredicateParams("WHERE", b.where))

\* Show.__sql__
ShowSql(b) ==
    Rendered(IF b.key # "none" THEN <<Fragment(b.key, Unset)>> ELSE <<>>, <<>>)

\* ValuesMatch.__sql__ under Insert.__sql__ and Replace.__sql__
ValuesSql(b, verb) ==
    Rendered(
        <<Fragment(verb, Unset)>> \o CommaClauseElements(b.columns) \o
        <<Fragment("VALUES", Unset)>> \o
        [i \in 1..Len(b.columns) |-> Fragment("%s", Unset)],
        IF b.many
        THEN [i \in DOMAIN b.values |-> Values("VALUES", b.values[i])]
        ELSE [i \in DOMAIN b.values[1] |-> Value("VALUES", b.values[1][i])])

\* __sql__ of the builder's class.
Sql(b) ==
    CASE b.kind = "select"  -> SelectSql(b)
      [] b.kind = "update"  -> UpdateSql(b)
      [] b.kind = "delete"  -> DeleteSql(b)
      [] b.kind = "show"    -> ShowSql(b)
      [] b.kind = "insert"  -> ValuesSql(b, "INSERT INTO")
      [] b.kind = "replace" -> ValuesSql(b, "REPLACE INTO")
      [] b.kind = "create"  -> Rendered(<<Fragment("CREATE TABLE", Unset)>>, <<>>)
      [] OTHER              -> Rendered(<<Fragment("DROP TABLE", Unset)>>, <<>>)

\* The class attribute __r__: Fetcher and its subclasses Select and Show
\* expect rows, Executor and its subclasses do not.
R(b) == b.kind \in {"select", "show"}

\* Connection.execute with the many property ignored.
ExecuteSingle(b) == "execute"

\* Connection.execute: executemany for a query built with many, else execute.
Execute(b) == IF b.many THEN "executemany" ELSE "execute"

\* Database.execute: the primitive of the Connection the query is run through.
Path(b) == IF R(b) THEN "fetch" ELSE Execute(b)

\* Fetcher.__do__ called by op with the model bound to a database or not;
\* b is the builder after the caller's own changes.  The rows property a
\* caller passes picks fetchone, fetchmany or fetchall within fetch.
Issue(op, b, bound) ==
    LET q == Sql(b)
    IN  IF ~bound \/ (q.err = NoExc /\ ~is_connected)
        THEN [NoIssue EXCEPT !.op = op, !.err = "UnconnectedError"]
        ELSE IF q.err # NoExc
        THEN [NoIssue EXCEPT !.op = op, !.err = q.err]
        ELSE [NoIssue EXCEPT !.op = op, !.sql = q.sql, !.params = q.params,
                             !.path = Path(b), !.rows = b.rows]

\* Fetcher.__do__ line 203: the properties the caller passed are stored in
\* self._props, once the model is known to be bound.
Props(b, rows, bound) == IF bound THEN [b EXCEPT !.rows = rows] ELSE b

\* Connection.fetch: the cursor method the rows argument picks.
FetchCall(rows) ==
    IF rows = Unset \/ rows = 0 THEN "fetchall"
    ELSE IF rows = 1 THEN "fetchone"
    ELSE "fetchmany"

\* A call that raised exc before anything was rendered.
Called(op, exc) == [NoIssue EXCEPT !.op = op, !.err = exc]

\* ApiProxy.select
NewSelect(cs) ==
    /\ builder.kind = "none"
    /\ builder' = [NoBuilder EXCEPT !.kind = "select", !.columns = cs]
    /\ issued' = NoIssue
    /\ UNCHANGED <<is_connected, connVars, iterVars>>

\* ApiProxy.update: the values of the dict are of the fields' types.
NewUpdate(data) ==
    /\ builder.kind = "none"
    /\ builder' = [NoBuilder EXCEPT !.kind = "update", !.values = Items(data, 1)]
    /\ issued' = NoIssue
    /\ UNCHANGED <<is_connected, connVars, iterVars>>

\* Delete(model, force)
NewDelete(force) ==
    /\ builder.kind = "none"
    /\ builder' = [NoBuilder EXCEPT !.kind = "delete", !.force = force]
    /\ issued' = NoIssue
    /\ UNCHANGED <<is_connected, connVars, iterVars>>

\* where() keeping the predicate of the first call.
WhereFirstWins(v) ==
    /\ builder.kind \in {"select", "update", "delete"}
    /\ builder' = [builder EXCEPT !.where = IF @ = None THEN v ELSE @]
    /\ issued' = NoIssue
    /\ UNCHANGED <<is_connected, connVars, iterVars>>

\* Select.where, Update.where, Delete.where
Where(v) ==
    /\ builder.kind \in {"select", "update", "delete"}
    /\ builder' = [builder EXCEPT !.where = v]
    /\ issued' = NoIssue
    /\ UNCHANGED <<is_connected, connVars, iterVars>>

\* Select.group_by: no column at all is a ValueError.
GroupBy(cs) ==
    /\ builder.kind = "select"
    /\ IF cs = <<>>
       THEN /\ issued' = Called("group_by", "ValueError")
            /\ UNCHANGED builder
       ELSE /\ builder' = [builder EXCEPT !.group_by = cs]
            /\ issued' = NoIssue
    /\ UNCHANGED <<is_connected, connVars, iterVars>>

\* Select.having
Having(v) ==
    /\ builder.kind = "select"
    /\ builder' = [builder EXCEPT !.having = v]
    /\ issued' = NoIssue
    /\ UNCHANGED <<is_connected, connVars, iterVars>>

\* Select.order_by: no column at all is a ValueError.
OrderBy(cs) ==
    /\ builder.kind = "select"
    /\ IF cs = <<>>
       THEN /\ issued' = Called("order_by", "ValueError")
            /\ UNCHANGED builder
       ELSE /\ builder' = [builder EXCEPT !.order_by = cs]
            /\ issued' = NoIssue
    /\ UNCHANGED <<is_connected, connVars, iterVars>>

\* Select.limit, Delete.limit
Limit(n) ==
    /\ builder.kind \in {"select", "delete"}
    /\ builder' = [builder EXCEPT !.limit = n]
    /\ issued' = NoIssue
    /\ UNCHANGED <<is_connected, connVars, iterVars>>

\* Select.offset with the check of the limit left out.
OffsetAllowedAlways(b) == TRUE

\* Select.offset is allowed once a limit is set.
OffsetAllowed(b) == b.limit # Unset

\* Select.offset
Offset(m) ==
    /\ builder.kind = "select"
    /\ IF OffsetAllowed(builder)
       THEN /\ builder' = [builder EXCEPT !.offset = m]
            /\ issued' = NoIssue
       ELSE /\ issued' = Called("offset", "NotAllowedOperation")
            /\ UNCHANGED builder
    /\ UNCHANGED <<is_connected, connVars, iterVars>>

\* str(builder), repr(builder), builder.query(): render without executing.
\* Create.__sql__ reads the url of the model's database.
Query(bound) ==
    LET q == IF builder.kind = "create" /\ ~bound
             THEN RenderRaises("AttributeError")
             ELSE Sql(builder)
    IN  /\ builder.kind # "none"
        /\ issued' = [NoIssue EXCEPT !.op = "query", !.sql = q.sql,
                                      !.params = q.params, !.err = q.err]
        /\ UNCHANGED <<builder, is_connected, connVars, iterVars>>

\* Select.get: one row of the statement as it stands.
Get(bound) ==
    /\ builder.kind = "select"
    /\ builder' = Props(builder, SINGLE, bound)
    /\ issued' = Issue("get", builder', bound)
    /\ UNCHANGED <<is_connected, connVars, iterVars>>

\* The limit Select.first sets.
FirstLimit(b) == 1

\* Select.first
First(bound) ==
    /\ builder.kind = "select"
    /\ builder' = Props([builder EXCEPT !.limit = FirstLimit(builder)],
                         SINGLE, bound)
    /\ issued' = Issue("first", builder', bound)
    /\ UNCHANGED <<is_connected, connVars, iterVars>>

\* Select.rows: limit and offset are set before the row count is checked.
Rows(n, start, bound) ==
    /\ builder.kind = "select"
    /\ builder' = [builder EXCEPT !.limit = n, !.offset = start]
    /\ issued' = IF n <= 0 THEN Called("rows", "ValueError")
                           ELSE Issue("rows", builder', bound)
    /\ UNCHANGED <<is_connected, connVars, iterVars>>

\* Select.paginate: pages count from one, page 0 is the first page too.
Paginate(page, size, bound) ==
    LET p == IF page > 0 THEN page - 1 ELSE page
    IN  /\ builder.kind = "select"
        /\ IF page < 0 \/ size <= 0
           THEN /\ issued' = Called("paginate", "ValueError")
                /\ UNCHANGED builder
           ELSE /\ builder' = [builder EXCEPT !.limit = size, !.offset = p * size]
                /\ issued' = Issue("paginate", builder', bound)
        /\ UNCHANGED <<is_connected, connVars, iterVars>>

\* Select.all
All(bound) ==
    /\ builder.kind = "select"
    /\ issued' = Issue("all", builder, bound)
    /\ UNCHANGED <<builder, is_connected, connVars, iterVars>>

\* Select.scalar: first() on the columns as they stand.
Scalar(bound) ==
    /\ builder.kind = "select"
    /\ builder' = Props([builder EXCEPT !.limit = FirstLimit(builder)],
                         SINGLE, bound)
    /\ issued' = Issue("scalar", builder', bound)
    /\ UNCHANGED <<is_connected, connVars, iterVars>>

\* The column list Select.count selects, left as it was.
CountColumnsKept(b) == b.columns

\* The column list Select.count selects.
CountColumns(b) == <<CountOne>>

\* Select.count: scalar() over COUNT(1).
Count(bound) ==
    /\ builder.kind = "select"
    /\ builder' = Props([builder EXCEPT !.columns = CountColumns(builder),
                                          !.limit = FirstLimit(builder)],
                         SINGLE, bound)
    /\ issued' = Issue("count", builder', bound)
    /\ UNCHANGED <<is_connected, connVars, iterVars>>

\* Select.exist: limit(1).count()
Exist(bound) ==
    /\ builder.kind = "select"
    /\ builder' = Props([builder EXCEPT !.columns = CountColumns(builder),
                                          !.limit = FirstLimit(builder)],
                         SINGLE, bound)
    /\ issued' = Issue("exist", builder', bound)
    /\ UNCHANGED <<is_connected, connVars, iterVars>>

\* Executor.do
Do(bound) ==
    /\ builder.kind \notin {"none", "select", "show"}
    /\ issued' = Issue("do", builder, bound)
    /\ UNCHANGED <<builder, is_connected, connVars, iterVars>>

\* ------------------------------------------------------ insert and replace

\* The fields of the model's table, in the order of fields_dict, and the
\* attribute names a caller's row can carry: the fields and one name that
\* is no field.
Fields == 1..NumFields
Attrs == 1..(NumFields + 1)

\* The schema: of every four fields the first is not null and has no
\* default, the second has a default that is SQL (as ON_CREATE), the third a
\* default that is a value, the fourth is nullable and has no default.
DefaultOf(f) ==
    CASE f % 4 = 2 -> "sql"
      [] f % 4 = 3 -> "value"
      [] OTHER     -> "none"
Nullable(f) == f % 4 = 0

\* The rows a caller passes: the set of attributes a row gives a value that
\* is not None (values are of the field's type: db_value accepts them).
RowsData == SUBSET Attrs
\* The batches a caller passes: no row, one row, or two rows.
Batches == {<<>>} \cup {<<r>> : r \in RowsData} \cup (RowsData \X RowsData)

\* _gen_insert_row skips a field without a value whose default is SQL.
Skipped(row, f) == f \notin row /\ DefaultOf(f) = "sql"

\* _gen_insert_row refuses None for a field that is not null, except for a
\* replace, and refuses an attribute that is no field.
RowRefused(row, for_replace) ==
    \/ \E f \in Fields :
            /\ f \notin row
            /\ DefaultOf(f) = "none"
            /\ ~Nullable(f)
            /\ ~for_replace
    \/ row \ Fields # {}

\* _gen_insert_row: the fields of the dict it returns, in order; the value
\* under a field is written as the field itself.
RECURSIVE ToInserts(_, _)
ToInserts(row, f) ==
    IF f > NumFields THEN <<>>
    ELSE (IF Skipped(row, f) THEN <<>> ELSE <<f>>) \o ToInserts(row, f + 1)

GenInsertRow(row) == ToInserts(row, 1)

\* _normalize_insert_rows without columns, and the loop of add_many.
NormalizeRefused(rows, for_replace) ==
    \E i \in DOMAIN rows : RowRefused(rows[i], for_replace)
NormalizeInsertRows(rows) == [i \in DOMAIN rows |-> GenInsertRow(rows[i])]

\* ValuesMatch(dict): the keys are the columns, the values the one row.
ValuesMatchRow(b, toinsert) ==
    [b EXCEPT !.columns = toinsert, !.values = <<toinsert>>]

\* ValuesMatch(list): the keys of the first row are the columns, the values
\* of every row its own.
ValuesMatchRows(b, cleaned) ==
    [b EXCEPT !.columns = cleaned[1], !.values = cleaned]

\* Insert and Replace built with many set the many property.
Many(b) == [b EXCEPT !.many = TRUE]

\* ApiProxy.insert with a dict
NewInsert(row) ==
    /\ builder.kind = "none"
    /\ IF RowRefused(row, FALSE)
       THEN /\ issued' = Called("insert", "ValueError")
            /\ UNCHANGED builder
       ELSE /\ builder' = ValuesMatchRow([NoBuilder EXCEPT !.kind = "insert"],
                                          GenInsertRow(row))
            /\ issued' = NoIssue
    /\ UNCHANGED <<is_connected, connVars, iterVars>>

\* ApiProxy.replace
NewReplace(row) ==
    /\ builder.kind = "none"
    /\ IF RowRefused(row, TRUE)
       THEN /\ issued' = Called("replace", "ValueError")
            /\ UNCHANGED builder
       ELSE /\ builder' = ValuesMatchRow([NoBuilder EXCEPT !.kind = "replace"],
                                          GenInsertRow(row))
            /\ issued' = NoIssue
    /\ UNCHANGED <<is_connected, connVars, iterVars>>

\* ApiProxy.insert_many without columns: rows[0] of no rows is an IndexError.
NewInsertMany(rows) ==
    /\ builder.kind = "none"
    /\ IF NormalizeRefused(rows, FALSE)
       THEN /\ issued' = Called("insert_many", "ValueError")
            /\ UNCHANGED builder
       ELSE IF rows = <<>>
       THEN /\ issued' = Called("insert_many", "IndexError")
            /\ UNCHANGED builder
       ELSE /\ builder' = Many(ValuesMatchRows([NoBuilder EXCEPT !.kind = "insert"],
                                               NormalizeInsertRows(rows)))
            /\ issued' = NoIssue
    /\ UNCHANGED <<is_connected, connVars, iterVars>>

\* ApiProxy.replace_many without columns
NewReplaceMany(rows) ==
    /\ builder.kind = "none"
    /\ IF NormalizeRefused(rows, TRUE)
       THEN /\ issued' = Called("replace_many", "ValueError")
            /\ UNCHANGED builder
       ELSE IF rows = <<>>
       THEN /\ issued' = Called("replace_many", "IndexError")
            /\ UNCHANGED builder
       ELSE /\ builder' = Many(ValuesMatchRows([NoBuilder EXCEPT !.kind = "replace"],
                                               NormalizeInsertRows(rows)))
            /\ issued' = NoIssue
    /\ UNCHANGED <<is_connected, connVars, iterVars>>

\* ApiProxy.add: an insert of one row, executed.
Add(row, bound) ==
    /\ builder.kind = "none"
    /\ IF RowRefused(row, FALSE)
       THEN /\ issued' = Called("add", "ValueError")
            /\ UNCHANGED builder
       ELSE /\ builder' = ValuesMatchRow([NoBuilder EXCEPT !.kind = "insert"],
                                          GenInsertRow(row))
            /\ issued' = Issue("add", builder', bound)
    /\ UNCHANGED <<is_connected, connVars, iterVars>>

\* ApiProxy.add_many: an insert of many rows, executed.
AddMany(rows, bound) ==
    /\ builder.kind = "none"
    /\ IF NormalizeRefused(rows, FALSE)
       THEN /\ issued' = Called("add_many", "ValueError")
            /\ UNCHANGED builder
       ELSE IF rows = <<>>
       THEN /\ issued' = Called("add_many", "IndexError")
            /\ UNCHANGED builder
       ELSE /\ builder' = Many(ValuesMatchRows([NoBuilder EXCEPT !.kind = "insert"],
                                               NormalizeInsertRows(rows)))
            /\ issued' = Issue("add_many", builder', bound)
    /\ UNCHANGED <<is_connected, connVars, iterVars>>

\* ------------------------------------------------- show, create and drop

\* Show(model)
NewShow ==
    /\ builder.kind = "none"
    /\ builder' = [NoBuilder EXCEPT !.kind = "show"]
    /\ issued' = NoIssue
    /\ UNCHANGED <<is_connected, connVars, iterVars>>

\* Show.create_syntax
CreateSyntax(bound) ==
    /\ builder.kind = "show"
    /\ builder' = [builder EXCEPT !.key = "SHOW CREATE TABLE"]
    /\ issued' = Issue("create_syntax", builder', bound)
    /\ UNCHANGED <<is_connected, connVars, iterVars>>

\* Show.columns
ShowColumns(bound) ==
    /\ builder.kind = "show"
    /\ builder' = [builder EXCEPT !.key = "SHOW FULL COLUMNS FROM"]
    /\ issued' = Issue("columns", builder', bound)
    /\ UNCHANGED <<is_connected, connVars, iterVars>>

\* Show.indexes
ShowIndexes(bound) ==
    /\ builder.kind = "show"
    /\ builder' = [builder EXCEPT !.key = "SHOW INDEX FROM"]
    /\ issued' = Issue("indexes", builder', bound)
    /\ UNCHANGED <<is_connected, connVars, iterVars>>

\* Create(model) and Drop(model)
NewCreate ==
    /\ builder.kind = "none"
    /\ builder' = [NoBuilder EXCEPT !.kind = "create"]
    /\ issued' = NoIssue
    /\ UNCHANGED <<is_connected, connVars, iterVars>>

NewDrop ==
    /\ builder.kind = "none"
    /\ builder' = [NoBuilder EXCEPT !.kind = "drop"]
    /\ issued' = NoIssue
    /\ UNCHANGED <<is_connected, connVars, iterVars>>

\* The caller drops the builder.
Discard ==
    /\ builder.kind # "none"
    /\ builder' = NoBuilder
    /\ issued' = NoIssue
    /\ UNCHANGED <<is_connected, connVars, iterVars>>

\* ------------------------------------------------ the builders' callers

\* One task makes a builder, changes it, renders and executes it, drops it
\* and makes the next.
Builders ==
    \/ Discard
    \/ \E cs \in ColumnLists \cup {<<Star>>} : NewSelect(cs)
    \/ \E data \in DataDicts : NewUpdate(data)
    \/ \E force \in BOOLEAN : NewDelete(force)
    \/ NewShow
    \/ NewCreate
    \/ NewDrop
    \/ \E row \in RowsData : NewInsert(row)
    \/ \E row \in RowsData : NewReplace(row)
    \/ \E rows \in Batches : NewInsertMany(rows)
    \/ \E rows \in Batches : NewReplaceMany(rows)

Mutators ==
    \/ \E v \in Filters : Where(v)
    \/ \E cs \in ColumnLists \cup {<<>>} : GroupBy(cs)
    \/ \E v \in Filters : Having(v)
    \/ \E cs \in ColumnLists \cup {<<>>} : OrderBy(cs)
    \/ \E n \in 0..MaxRows : Limit(n)
    \/ \E m \in (0..MaxRows) \cup {Unset} : Offset(m)

Terminals ==
    \E bound \in BOOLEAN :
        \/ Query(bound)
        \/ Get(bound)
        \/ First(bound)
        \/ \E n \in 0..MaxRows : \E start \in 0..MaxRows : Rows(n, start, bound)
        \/ \E page \in 0..MaxRows : \E size \in 0..MaxRows : Paginate(page, size, bound)
        \/ All(bound)
        \/ Scalar(bound)
        \/ Count(bound)
        \/ Exist(bound)
        \/ Do(bound)
        \/ \E row \in RowsData : Add(row, bound)
        \/ \E rows \in Batches : AddMany(rows, bound)
        \/ CreateSyntax(bound)
        \/ ShowColumns(bound)
        \/ ShowIndexes(bound)

\* The database is connected or not, and no task is inside a scope.
InitQuery ==
    /\ is_connected \in BOOLEAN
    /\ pool = IF is_connected THEN "open" ELSE "none"
    /\ free = Handles
    /\ in_tx = [h \in Handles |-> FALSE]
    /\ connctx = [t \in Tasks |-> None]
    /\ current = [c \in Conns |-> None]
    /\ conn_counter = [c \in Conns |-> 0]
    /\ conn_lock = [c \in Conns |-> None]
    /\ tran_lock = [c \in Conns |-> None]
    /\ query_lock = [c \in Conns |-> None]
    /\ stack = [t \in Tasks |-> <<>>]
    /\ pc = [t \in Tasks |-> "idle"]
    /\ call = [t \in Tasks |-> NoCall]
    /\ faults = 0
    /\ builder = NoBuilder
    /\ issued = NoIssue
    /\ table_rows = 0
    /\ yielded = <<>>

NextQuery == Builders \/ Mutators \/ Terminals

SpecQuery == InitQuery /\ [][NextQuery]_vars

\* ---------------------------------------------- iteration over a Select

\* The backend's answer to a Select sent with LIMIT and OFFSET: the rows of
\* the result, numbered from 1, after the first offset ones, at most limit.
ResultRows(limit, offset) ==
    [i \in 1..(IF table_rows - offset > limit THEN limit
               ELSE IF table_rows - offset > 0 THEN table_rows - offset
               ELSE 0) |-> offset + i]

\* Select.__row__ fetches when it has no rows, and again when the index
\* has reached the batch size.
Refetch(b) == b.gotlist = <<>> \/ b.gotidx >= BATCH

\* Select.__anext__, with __row__: one step of async for row in select.
\* The loop ends with StopAsyncIteration or another exception; the rows
\* handed to it are counted up to a bound.
Anext(bound) ==
    LET asked == [builder EXCEPT !.limit = BATCH, !.offset = builder.gotidx]
        sent == Issue("anext", asked, bound)
        got == [asked EXCEPT
                    !.gotlist = ResultRows(asked.limit, asked.offset),
                    !.gotidx = IF builder.gotlist # <<>> THEN 0 ELSE @]
        b == IF Refetch(builder) THEN got ELSE builder
    IN  /\ builder.kind = "select"
        /\ issued.err = NoExc
        /\ Len(yielded) < MaxTable + BATCH
        /\ IF Refetch(builder) /\ sent.err # NoExc
           THEN /\ builder' = asked
                /\ issued' = sent
                /\ UNCHANGED yielded
           ELSE IF b.gotidx >= Len(b.gotlist)
           THEN /\ builder' = b
                /\ issued' = Called("anext", "StopAsyncIteration")
                /\ UNCHANGED yielded
           ELSE /\ builder' = [b EXCEPT !.gotidx = @ + SINGLE]
                /\ issued' = IF Refetch(builder) THEN sent
                                                 ELSE Called("anext", NoExc)
                /\ yielded' = Append(yielded, b.gotlist[b.gotidx + 1])
        /\ UNCHANGED <<is_connected, connVars, table_rows>>

\* A Select over a result of some size is made and iterated.
InitIter ==
    /\ is_connected \in BOOLEAN
    /\ pool = IF is_connected THEN "open" ELSE "none"
    /\ free = Handles
    /\ in_tx = [h \in Handles |-> FALSE]
    /\ connctx = [t \in Tasks |-> None]
    /\ current = [c \in Conns |-> None]
    /\ conn_counter = [c \in Conns |-> 0]
    /\ conn_lock = [c \in Conns |-> None]
    /\ tran_lock = [c \in Conns |-> None]
    /\ query_lock = [c \in Conns |-> None]
    /\ stack = [t \in Tasks |-> <<>>]
    /\ pc = [t \in Tasks |-> "idle"]
    /\ call = [t \in Tasks |-> NoCall]
    /\ faults = 0
    /\ builder = NoBuilder
    /\ issued = NoIssue
    /\ table_rows \in 0..MaxTable
    /\ yielded = <<>>

NextIter ==
    \/ \E cs \in ColumnLists \cup {<<Star>>} : NewSelect(cs)
    \/ \E bound \in BOOLEAN : Anext(bound)

SpecIter == InitIter /\ [][NextIter]_vars

\* ------------------------------------------------------------ properties
\* Some frame of a task's stack is a transaction.
HasTx(s) == \E i \in DOMAIN s : s[i] = "tx"

\* The step in which a call of task 1 returns to its caller.
Returns == pc[1] # "idle" /\ pc'[1] = "idle"

\* C1 (as corrected): an invocation of a transactional scope sends at most
\* one BEGIN.  If begin() returns normally it has sent exactly one and the
\* body runs; the exit then sends exactly one command, ROLLBACK if and only
\* if the body raised and COMMIT if and only if it did not, before anything
\* reaches the caller.  If begin() raises, the body does not run and neither
\* COMMIT nor ROLLBACK is sent.
C1_Bracket ==
    /\ (Returns /\ call[1].op = "begin") =>
            /\ call[1].sent <= 1
            /\ IF call'[1].err = NoExc
               THEN /\ call[1].sent = 1
                    /\ stack'[1] = Append(stack[1], "tx")
               ELSE stack'[1] = stack[1]
    /\ (stack[1] # <<>> /\ Top(1) = "tx" /\ Len(stack'[1]) < Len(stack[1])) =>
            /\ Returns
            /\ stack'[1] = Pop(stack[1])
            /\ call[1].op \in {"commit", "rollback"}
            /\ call[1].op = "rollback" <=> call[1].excIn # NoExc
            /\ call[1].sent = 1

C1_TransactionBracket == [][C1_Bracket]_vars

\* A rollback has been sent for a body that raised, and nothing has reached
\* the caller yet.
C1_Witness ==
    /\ pc[1] = "end_io"
    /\ call[1].op = "rollback"
    /\ call[1].excIn = "BodyError"
    /\ call[1].sent = 1

\* C1 as stated: every invocation sends one BEGIN and then one of COMMIT and
\* ROLLBACK - so an invocation whose BEGIN was sent goes on to its body.
C1_AsStated ==
    [][C1_Bracket /\ (pc[1] = "begin_io" /\ pc'[1] # "begin_io" =>
                        stack'[1] = Append(stack[1], "tx"))]_vars

\* C2 as stated, for one task: when begin() raises after BEGIN was sent, and
\* when commit() or rollback() is over, the counter is one less than during
\* the scope, which is the value before it was entered, and a Connection
\* whose counter is back at zero has no handle.
C2_CounterRestored ==
    [][((pc[1] = "begin_io" /\ Returns /\ call'[1].err # NoExc) \/
        (pc[1] = "end_io" /\ pc'[1] # "end_io")) =>
            /\ conn_counter'[1] = conn_counter[1] - 1
            /\ (pc'[1] = "idle" /\ conn_counter'[1] = 0) =>
                    current'[1] = None]_vars

\* C3: while nothing has failed, a Connection between two calls of its task
\* counts the scopes the task is inside; with none open it has no handle and
\* the pool has all of them (IDLE); with one or more open it has a handle
\* (LEASED), and the handle stays the same from an entry to the last exit.
C3_NestedScopes ==
    /\ [](faults = 0 /\ pc[1] = "idle" =>
            /\ conn_counter[1] = Len(stack[1])
            /\ conn_counter[1] = 0 => current[1] = None /\ free = Handles
            /\ conn_counter[1] > 0 => current[1] \in Handles \ free)
    /\ [][faults = 0 /\ conn_counter[1] >= 1 /\ conn_counter'[1] >= 1 /\
          current[1] # None => current'[1] = current[1]]_vars

\* Entered twice and left once: one scope open, the handle attached.
C3_Witness ==
    /\ faults = 0
    /\ builder = NoBuilder
    /\ issued = NoIssue
    /\ pc[1] = "idle"
    /\ call[1].op = "exit"
    /\ stack[1] = <<"scope">>
    /\ conn_counter[1] = 1
    /\ current[1] \in Handles

\* C4: pool.acquire() is awaited only by the entry that takes the counter
\* from 0 to 1 and pool.release() only by the exit that takes it from 1 to
\* 0; every other step that changes the counter leaves the handle and the
\* pool alone.
C4_PoolOnlyOutermost ==
    [][/\ (pc'[1] = "pool_acquire" /\ pc[1] # "pool_acquire") =>
            conn_counter[1] = 0 /\ conn_counter'[1] = 1
       /\ (pc'[1] = "pool_release" /\ pc[1] # "pool_release") =>
            conn_counter[1] = 1 /\ conn_counter'[1] = 0
       /\ (conn_counter'[1] # conn_counter[1] /\
           ~(conn_counter[1] = 0 /\ conn_counter'[1] = 1) /\
           ~(conn_counter[1] = 1 /\ conn_counter'[1] = 0)) =>
            /\ pc'[1] \notin {"pool_acquire", "pool_release"}
            /\ current'[1] = current[1]
            /\ free' = free]_vars

\* A nested entry has returned: the counter is 2, the handle attached.
C4_Witness ==
    /\ pc[1] = "idle"
    /\ call[1].op = "enter"
    /\ call[1].err = NoExc
    /\ conn_counter[1] = 2
    /\ current[1] \in Handles

\* C5: while a transaction of the task is open, a statement run through
\* Database.execute uses the handle of the Connection, which is the one the
\* transaction began on: no step of the call awaits the pool, and the handle
\* and the pool are as they were; the handle stays the same as long as the
\* transaction is open.
C5_ExecuteInTransaction ==
    [][/\ (HasTx(stack[1]) /\ call'[1].op = "dbexec") =>
            /\ pc'[1] \notin {"pool_acquire", "pool_release"}
            /\ current[1] \in Handles
            /\ current'[1] = current[1]
            /\ free' = free
            /\ pc'[1] \in {"exec_io", "fetch_io"} =>
                    call'[1].h = current[1]
       /\ (HasTx(stack[1]) /\ HasTx(stack'[1])) =>
            current'[1] = current[1] /\ current[1] \notin free]_vars

\* A statement of Database.execute has returned inside an open transaction.
C5_Witness ==
    /\ pc[1] = "idle"
    /\ call[1].op = "dbexec"
    /\ call[1].err = NoExc
    /\ stack[1] = <<"tx">>
    /\ conn_counter[1] = 1
    /\ current[1] \in Handles

\* C6 as stated: no BEGIN is on its way to a handle whose session has a
\* transaction open.
C6_OneLifecycle ==
    \A t \in Tasks : pc[t] = "begin_io" => ~in_tx[call[t].h]

\* C7: of the tasks sharing a Connection at most one is inside a round trip
\* of fetch() or execute(), and it holds the execute lock from the statement
\* to the read of the result.
C7_OneRoundTrip ==
    \A t \in Tasks :
        pc[t] \in {"exec_io", "fetch_io"} =>
            /\ query_lock[call[t].conn] = t
            /\ \A u \in Tasks \ {t} :
                    pc[u] \in {"exec_io", "fetch_io"} =>
                        call[u].conn # call[t].conn

\* One task reads its rows while the other waits for the execute lock.
C7_Witness ==
    /\ pc[1] = "fetch_io"
    /\ pc[2] = "query_wait"
    /\ query_lock[1] = 1

\* C8 as stated: when pool.acquire() raises or is cancelled, the counter is
\* back at the value the entry found.
C8_AcquireFailureUndone ==
    [][(pc[1] = "pool_acquire" /\ Returns /\ call'[1].err # NoExc) =>
            conn_counter'[1] = conn_counter[1] - 1]_vars

\* The step in which task 1 makes a call that is not the one it made last.
Calling(o) == pc[1] = "idle" /\ call'[1] # call[1] /\ call'[1].op = o

\* The call raised AssertionError in the step it was made in, without
\* waiting for anything and with the pool, the handles and the Connection
\* as they were.
Refused ==
    /\ pc'[1] = "idle"
    /\ call'[1].err = "AssertionError"
    /\ UNCHANGED <<dbVars, free, in_tx, current, conn_counter, lockVars>>

\* C9: acquire() without a pool, release() without a handle and fetch() or
\* execute() without a handle raise at once and do nothing else.
C9_ProgrammingErrors ==
    [][/\ (Calling("acquire") /\ pool = "none") => Refused
       /\ (Calling("release") /\ current[1] = None) => Refused
       /\ (\E q \in Statements : Calling(q) /\ current[1] = None) =>
            Refused]_vars

\* acquire() was refused on a Connection without a handle, the pool closed.
C9_Witness ==
    /\ pc[1] = "idle"
    /\ call[1].op = "acquire"
    /\ call[1].err = "AssertionError"
    /\ pool = "none"
    /\ current[1] = None
    /\ connctx[1] # None

\* The step in which rollback() returns.
RollbackReturns == Returns /\ call[1].op = "rollback"

C11_BeginEndCount ==
    /\ [](HasTx(stack[1]) => current[1] \in Handles)
    /\ [][/\ (Calling("begin") /\ connctx'[1] # None) =>
                /\ conn_counter'[1] = conn_counter[1] + 1
                /\ pc'[1] = "pool_acquire" => conn_counter[1] = 0
          /\ (call[1].op \in {"commit", "rollback"} /\
              Len(stack'[1]) < Len(stack[1])) =>
                conn_counter'[1] = conn_counter[1] - 1 \/
                pc[1] = "pool_released"]_vars

\* C12 as stated: whenever the bookkeeping lock of the Connection is free,
\* the Connection has a handle if and only if its counter is above zero.
C12_HandleIffCounted ==
    conn_lock[1] = None => (current[1] # None <=> conn_counter[1] > 0)

\* The task is inside an acquire scope of its Connection.
InScope(t) == stack[t] # <<>> \/ call[t].op = "dbexec"

\* A statement sent from inside a scope runs on the handle of its Connection,
\* which is leased and counted.
ScopedStatementsOnLease ==
    \A t \in Tasks :
        (pc[t] \in {"exec_io", "fetch_io"} /\ InScope(t)) =>
            /\ call[t].h = current[call[t].conn]
            /\ call[t].h \notin free
            /\ conn_counter[call[t].conn] > 0

\* C13 as stated: a statement sent from inside a scope never runs on a handle
\* that is back in the pool, and no handle is attached to two Connections.
C13_ExclusiveHandle ==
    /\ ScopedStatementsOnLease
    /\ \A c \in Conns : \A d \in Conns \ {c} :
            current[c] # None => current[c] # current[d]

\* The fragments of the last call's statement that carry the literal text.
Clauses(text) == {i \in DOMAIN issued.sql : issued.sql[i].lit = text}

\* The builder is a Delete of every row that was not forced.
UnguardedDelete ==
    builder.kind = "delete" /\ builder.where = None /\ ~builder.force

\* C14: rendering or executing a Delete without predicate and without the
\* force flag raises DangerousOperation (executing it for a model bound to no
\* database raises UnconnectedError before anything is rendered) and hands
\* no statement to the Connection; a Delete with a predicate that renders,
\* renders exactly one WHERE clause, with the predicate the builder holds.
C14_DeleteGuard ==
    /\ [](UnguardedDelete /\ issued.op \in {"do", "query"} =>
            /\ issued.err \in {"DangerousOperation", "UnconnectedError"}
            /\ issued.path = "none"
            /\ issued.sql = <<>>)
    /\ [](builder.kind = "delete" /\ builder.where # None /\
          issued.op \in {"do", "query"} /\ issued.err = NoExc =>
            /\ Cardinality(Clauses("WHERE")) = 1
            /\ \A i \in Clauses("WHERE") : issued.sql[i].arg = builder.where)
    /\ [][UnguardedDelete /\ (Do(TRUE) \/ Query(TRUE) \/ Query(FALSE)) =>
            issued'.err = "DangerousOperation"]_vars

\* A Delete of every row was executed on a connected database and refused.
C14_Witness ==
    /\ UnguardedDelete
    /\ is_connected
    /\ issued.op = "do"
    /\ issued.err = "DangerousOperation"

\* C15: offset() on a Select without a limit raises NotAllowedOperation and
\* changes nothing, so the offset stays unset; offset() on a Select with a
\* limit sets the offset and raises nothing; whatever was called, a Select
\* holds an offset only if it holds a limit, and a rendered statement has
\* OFFSET only directly after LIMIT.
C15_OffsetNeedsLimit ==
    /\ [](builder.kind = "select" /\ builder.offset # Unset =>
            builder.limit # Unset)
    /\ [](builder.kind = "select" =>
            \A i \in Clauses("OFFSET") :
                i > 1 /\ issued.sql[i - 1].lit = "LIMIT")
    /\ [][\A m \in (0..MaxRows) \cup {Unset} :
            Offset(m) =>
                IF builder.limit = Unset
                THEN /\ issued'.err = "NotAllowedOperation"
                     /\ builder' = builder
                     /\ builder'.offset = Unset
                ELSE /\ issued'.err = NoExc
                     /\ builder'.offset = m]_vars

\* A Select with a limit and an offset was rendered for the backend.
C15_Witness ==
    /\ builder.kind = "select"
    /\ issued.path = "fetch"
    /\ Clauses("LIMIT") # {}
    /\ Clauses("OFFSET") # {}

\* The last call rendered a statement.
HasStatement == issued.sql # <<>>

\* The rendered statement has the clause text once, with arg, if the slot is
\* set, and not at all if it is not.
OneClause(text, arg, unset) ==
    /\ Cardinality(Clauses(text)) = (IF arg = unset THEN 0 ELSE 1)
    /\ \A i \in Clauses(text) : issued.sql[i].arg = arg

\* The rendered statement has the clause text once, followed by the columns
\* cs and no other column, if cs is set, and not at all if it is not.
OneList(text, cs) ==
    /\ Cardinality(Clauses(text)) = (IF cs = <<>> THEN 0 ELSE 1)
    /\ \A i \in Clauses(text) :
            /\ i + Len(cs) <= Len(issued.sql)
            /\ SubSeq(issued.sql, i + 1, i + Len(cs)) = CommaClauseElements(cs)
            /\ i + Len(cs) < Len(issued.sql) =>
                    issued.sql[i + Len(cs) + 1].lit # "column"

\* C16: a call of where(), having(), limit(), offset(), group_by() or
\* order_by() that does not raise leaves in its slot the value of that call
\* alone, whatever the slot held, and a rendered Select, Update or Delete
\* carries each clause at most once, with the value its slot holds.
C16_LastCallWins ==
    /\ [][/\ \A v \in Filters :
                /\ Where(v) => builder'.where = v
                /\ Having(v) => builder'.having = v
          /\ \A cs \in ColumnLists :
                /\ GroupBy(cs) => builder'.group_by = cs
                /\ OrderBy(cs) => builder'.order_by = cs
          /\ \A n \in 0..MaxRows :
                /\ Limit(n) => builder'.limit = n
                /\ Offset(n) /\ builder.limit # Unset => builder'.offset = n]_vars
    /\ [](HasStatement /\ builder.kind \in {"select", "update", "delete"} =>
            /\ OneClause("WHERE", builder.where, None)
            /\ OneClause("HAVING", builder.having, None)
            /\ OneClause("LIMIT", builder.limit, Unset)
            /\ OneClause("OFFSET", builder.offset, Unset)
            /\ OneList("GROUP BY", builder.group_by)
            /\ OneList("ORDER BY", builder.order_by))

\* A Select was rendered whose where() and having() hold the last of the
\* predicates, whose group_by() and order_by() hold different column lists
\* and whose limit is not the first of the limits: each slot holds a value
\* other than the one it would hold had an earlier call won.
C16_Witness ==
    /\ builder.kind = "select"
    /\ HasStatement
    /\ builder.where = NumPreds
    /\ builder.having = NumPreds
    /\ Len(builder.group_by) = NumColumns
    /\ Len(builder.order_by) = 1
    /\ builder.limit = MaxRows
    /\ builder.offset = MaxRows

\* A statement was handed to the Connection by the last call.
Sent == issued.path # "none"

\* C17: the statement first() or get() sends carries LIMIT 1, and the
\* builder's limit is 1, whatever limit was set before.
C17_ForcesLimitOne ==
    builder.kind = "select" /\ issued.op \in {"first", "get"} /\ Sent =>
        /\ builder.limit = 1
        /\ OneClause("LIMIT", 1, Unset)

\* The column list of the statement the last call rendered.
SelectList ==
    SubSeq(issued.sql, 2, Len(builder.columns) + 1)

\* C18: count() and exist() replace the column list by COUNT(1) before
\* anything is rendered, and the statement they send selects COUNT(1) alone;
\* scalar() leaves the column list as it is.
C18_CountReplacesColumns ==
    /\ [](builder.kind = "select" /\ issued.op \in {"count", "exist"} =>
            /\ builder.columns = <<CountOne>>
            /\ Sent =>
                    /\ SelectList = <<Fragment("column", CountOne)>>
                    /\ issued.sql[3].lit = "FROM")
    /\ [][\A bound \in BOOLEAN :
            Scalar(bound) => builder'.columns = builder.columns]_vars

\* count() was sent for a Select made with columns of the table.
C18_Witness ==
    /\ builder.kind = "select"
    /\ issued.op = "count"
    /\ Sent
    /\ builder.columns = <<CountOne>>
    /\ builder.group_by # <<>>

\* C18 as stated: after count(), exist() and scalar() alike the column list
\* is a single aggregate.
C18_AsStated ==
    builder.kind = "select" /\ issued.op \in {"count", "exist", "scalar"} =>
        builder.columns = <<CountOne>>

\* C19: every row of a batch insert or replace binds one value for each
\* column of the shared column list, in the order of the columns.
C19_BatchColumns ==
    builder.kind \in {"insert", "replace"} /\ builder.many =>
        \A i \in DOMAIN builder.values : builder.values[i] = builder.columns

\* The primitive of the Connection that is the builder's own.
OwnPath ==
    CASE builder.kind \in {"select", "show"} -> "fetch"
      [] builder.kind \in {"insert", "replace"} /\ builder.many -> "executemany"
      [] OTHER -> "execute"

\* C20: a statement that is sent goes through fetch for a Select or a Show,
\* through the batched execute for an Insert or Replace in batch mode and
\* through the single execute for every other builder; the builders in
\* batch mode are those made by insert_many, replace_many and add_many, the
\* writes made otherwise are not, and the mode of a builder never changes.
C20_PathByBuilder ==
    /\ [](Sent => issued.path = OwnPath)
    /\ [](Sent /\ issued.op = "add_many" => issued.path = "executemany")
    /\ [](Sent /\ issued.op = "add" => issued.path = "execute")
    /\ [](builder.many => builder.kind \in {"insert", "replace"})
    /\ [][/\ builder.kind # "none" /\ builder'.kind # "none" =>
                builder'.kind = builder.kind /\ builder'.many = builder.many
          /\ builder.kind = "none" /\ builder'.many =>
                \E rows \in Batches :
                    \/ NewInsertMany(rows)
                    \/ NewReplaceMany(rows)
                    \/ \E bound \in BOOLEAN : AddMany(rows, bound)
          /\ builder.kind = "none" /\ builder'.kind # "none" /\ ~builder'.many =>
                ~ \E rows \in Batches :
                    \/ NewInsertMany(rows)
                    \/ NewReplaceMany(rows)
                    \/ \E bound \in BOOLEAN : AddMany(rows, bound)]_vars

\* An Insert made by insert_many was sent through the batched execute.
C20_Witness ==
    /\ builder.kind = "insert"
    /\ builder.many
    /\ issued.op = "do"
    /\ issued.path = "executemany"

\* The entries of the last statement's parameter list that come from clause.
Entries(clause) ==
    {i \in DOMAIN issued.params : issued.params[i].clause = clause}

\* The placeholders of the SET text, left to right, and the parameters of
\* the SET entries, in order, were every entry one parameter.
SetPlaceholders ==
    SelectSeq(issued.sql, LAMBDA f : f.lit = "%s")
SetEntries ==
    SelectSeq(issued.params, LAMBDA e : e.clause = "SET")

\* C21: the parameters an Update's SET list contributes are a flat sequence,
\* one entry for each placeholder of the SET text in the order of the
\* placeholders, and all of them precede every WHERE parameter.
C21_SetParams ==
    builder.kind = "update" /\ HasStatement =>
        /\ \A i \in Entries("SET") : ~issued.params[i].nested
        /\ Len(SetEntries) = Len(SetPlaceholders)
        /\ \A i \in DOMAIN SetEntries :
                i <= Len(SetPlaceholders) =>
                    SetEntries[i].vals = <<SetPlaceholders[i].arg>>
        /\ \A i \in Entries("SET") : \A j \in Entries("WHERE") : i < j

\* The entries of task t into the Connection that are not yet matched by an
\* exit that took the bookkeeping lock: the scopes and transactions it is
\* inside, and the entry of a begin() or a Database.execute in progress.
UnmatchedEntries(t) ==
    Len(stack[t]) +
    (IF \/ pc[t] = "begin_io"
        \/ call[t].op = "dbexec" /\
           pc[t] \in {"query_wait", "exec_io", "fetch_io", "conn_wait_out"}
     THEN 1 ELSE 0)

\* C22: on a Connection shared by tasks, a pool acquisition starts only
\* from counter 0 with no handle attached and no second one starts while it
\* is pending; whenever the bookkeeping lock is free the counter is the
\* number of unmatched entries of all tasks; while the counter stays above
\* zero the attached handle stays the same; no entry raises AssertionError;
\* the handle goes back to the pool only by the exit that lowered the
\* counter to 0, and it is not in the pool already.
C22_ConcurrentEntries ==
    /\ [](Cardinality({t \in Tasks : pc[t] = "pool_acquire"}) <= 1)
    /\ [](Cardinality({t \in Tasks :
                        pc[t] \in {"pool_release", "pool_released"}}) <= 1)
    /\ [](conn_lock[1] = None =>
            conn_counter[1] = UnmatchedEntries(1) + UnmatchedEntries(2))
    /\ [](\A t \in Tasks :
            call[t].op \in {"enter", "begin", "dbexec"} =>
                call[t].err # "AssertionError")
    /\ [][\A t \in Tasks :
            /\ (pc[t] # "pool_acquire" /\ pc'[t] = "pool_acquire") =>
                    /\ conn_counter[1] = 0
                    /\ conn_counter'[1] = 1
                    /\ current[1] = None
            /\ (pc[t] # "pool_release" /\ pc'[t] = "pool_release") =>
                    /\ conn_counter'[1] = 0
                    /\ current[1] \notin free
            /\ (current[1] # None /\ conn_counter'[1] > 0) =>
                    current'[1] = current[1]]_vars

\* Both tasks are entering the idle shared Connection: task 1 holds the
\* bookkeeping lock and awaits the pool, task 2 waits for the lock.
C22_Witness ==
    /\ call[1].op = "enter"
    /\ call[2].op = "enter"
    /\ pc[1] = "pool_acquire"
    /\ pc[2] = "conn_wait_in"
    /\ conn_lock[1] = 1
    /\ conn_counter[1] = 1

\* C23: the rows an iteration over a Select has handed out are the first
\* rows of the result, each once and in result order, and when the
\* iteration stops they are all the rows of the result.
C23_IterationYieldsAll ==
    /\ \A i \in DOMAIN yielded : yielded[i] = i
    /\ (issued.op = "anext" /\ issued.err = "StopAsyncIteration") =>
            Len(yielded) = table_rows

\* The transactional scopes among the scopes s a task is inside.
TxScopes(s) == Cardinality({i \in DOMAIN s : s[i] = "tx"})

\* C24: with transactional scopes nested on one Connection, a commit
\* is sent to the handle only by the normal exit of the outermost
\* transactional scope: whenever a task sends COMMIT, the scope it leaves
\* is the only transactional scope it is inside.
C24_OutermostCommits ==
    [][\A t \in Tasks :
        (pc'[t] = "end_io" /\ pc[t] # "end_io" /\ call'[t].op = "commit")
            => TxScopes(stack[t]) = 1]_vars

\* C25: a begin, commit or rollback command is never sent to a
\* Connection's handle while a fetch / execute round trip started by another
\* task is still in progress on that handle.
C25_NoCommandDuringRoundTrip ==
    [][\A t \in Tasks :
        (pc'[t] \in {"begin_io", "end_io"} /\ pc[t] \notin {"begin_io", "end_io"})
            => ~ \E u \in Tasks \ {t} :
                    /\ pc[u] \in {"exec_io", "fetch_io"}
                    /\ call[u].h = call'[t].h]_vars

\* C26: whatever entries, exits, begins, commits and rollbacks a
\* Connection has seen, its reentrancy counter is never negative.
C26_CounterNotNegative == \A c \in Conns : conn_counter[c] >= 0

\* The locks of its Connection a task holds, and the one it waits for.
Holds(t, lock) == lock[call[t].conn] = t

Awaits(t) ==
    CASE pc[t] \in {"conn_wait_in", "conn_wait_out"} -> "conn"
      [] pc[t] = "tran_wait" -> "tran"
      [] pc[t] = "query_wait" -> "query"
      [] OTHER -> "none"

\* The transaction lock is taken before the bookkeeping lock, and nothing
\* is awaited under the execute lock but the handle.
LockOrder ==
    \A t \in Tasks :
        /\ Awaits(t) = "tran" => ~Holds(t, conn_lock) /\ ~Holds(t, query_lock)
        /\ Awaits(t) = "conn" => ~Holds(t, query_lock)
        /\ Awaits(t) = "query" =>
                ~Holds(t, conn_lock) /\ ~Holds(t, tran_lock)
        /\ (pc[t] # "idle" /\ Holds(t, query_lock)) =>
                pc[t] \in {"exec_io", "fetch_io"}

\* C27: tasks sharing one Connection take its three locks in one
\* order (the transaction lock before the bookkeeping lock, nothing awaited
\* under the execute lock but the handle), and when the pool and the handle
\* answer, every entry, exit, begin, commit, rollback, fetch and execute
\* that was called returns.
C27_NoDeadlock ==
    /\ []LockOrder
    /\ \A t \in Tasks : (pc[t] # "idle") ~> (pc[t] = "idle")

C27_Witness ==
    /\ pc[1] = "pool_acquire"
    /\ call[1].op = "begin"
    /\ Holds(1, tran_lock)
    /\ Holds(1, conn_lock)
    /\ pc[2] = "tran_wait"

\* C28: the execution options of one terminal do not carry over to
\* the next: an all() that reaches the backend asks it for all rows of the
\* result, whatever terminals ran on the Select before.
C28_AllFetchesAll ==
    (issued.op = "all" /\ Sent) => FetchCall(issued.rows) = "fetchall"

\* C29: count() counts the rows matching the predicate whatever
\* limit and offset the builder had: the aggregate statement it sends, whose
\* result is one row, skips no row (it carries no OFFSET other than 0).
C29_CountSkipsNothing ==
    (issued.op = "count" /\ Sent) =>
        \A i \in Clauses("OFFSET") : issued.sql[i].arg = 0

\* The call task 1 makes in this step raised exc at once.
Raised(exc) == pc'[1] = "idle" /\ call'[1].err = exc

\* C30: connect() on a connected database and close(), execute()
\* and transaction() on an unconnected one raise and leave is_connected as it
\* was; is_connected becomes true only when create_pool() has answered and
\* false only when the pool has closed; a connect() or close() that fails
\* leaves it as it was.
C30_ConnectedFlag ==
    [][/\ (Calling("connect") /\ is_connected) =>
            (Raised("DuplicateConnect") /\ UNCHANGED dbVars)
       /\ (\E o \in {"close", "dbexec", "begin"} :
                Calling(o) /\ ~is_connected) =>
            (Raised("UnconnectedError") /\ UNCHANGED dbVars)
       /\ (~is_connected /\ is_connected') =>
            (pc[1] = "create_pool" /\ Raised(NoExc) /\ pool' = "open")
       /\ (is_connected /\ ~is_connected') =>
            (pc[1] = "wait_closed" /\ Raised(NoExc) /\ pool' = "none")
       /\ (pc[1] \in {"create_pool", "wait_closed"} /\ pc'[1] = "idle"
                /\ call'[1].err # NoExc) =>
            UNCHANGED is_connected]_vars

\* A close() that failed: the database still counts as connected.
C30_Witness ==
    /\ pc[1] = "idle"
    /\ call[1].op = "close"
    /\ call[1].err = "CloseError"
    /\ is_connected
====
